---------------------------- MODULE Spec2Model ----------------------------
(* StartAnime service worker (sw.js): the cache store, the request         *)
(* classifier, the four fetch strategies, the install / activate hooks and *)
(* the message handlers, as a state machine whose steps are the await      *)
(* points of the source; and the page's ComponentLoader                    *)
(* (assets/js/components.js): the fragment memo, loadComponent and its     *)
(* callers, fragment extraction and template substitution.                 *)
EXTENDS Integers, Sequences, FiniteSets, TLC

(***************************************************************************)
(* Bounds                                                                  *)
(***************************************************************************)
MaxBody == 2      \* distinct versions of a resource the network can serve
NumSlots == 2     \* fetch handlers that may be in flight at the same time
MaxFetch == 2     \* fetch events dispatched in one behaviour
MaxMsg == 2       \* messages posted to the worker in one behaviour
MaxEvents == 3    \* fetch events and messages together in one behaviour
NumCalls == 2     \* loader calls that may be in flight at the same time
MaxCalls == 2     \* loader calls started in one behaviour
MaxClear == 1     \* clearCache calls in one behaviour

(***************************************************************************)
(* Program constants (sw.js:6-35)                                          *)
(***************************************************************************)
STATIC_CACHE == "startanime-static-v1.0.0"
DYNAMIC_CACHE == "startanime-dynamic-v1.0.0"
IMAGE_CACHE == "startanime-images-v1.0.0"

STATIC_FILES ==
  << "/",
     "/index.html",
     "/recommend.html",
     "/assets/css/main.css",
     "/assets/css/mobile-optimizations.css",
     "/assets/css/performance.css",
     "/assets/css/recomendations.css",
     "/assets/css/animations.css",
     "/assets/css/components.css",
     "/assets/js/main.js",
     "/assets/js/recommendations.js",
     "/assets/js/animations.js",
     "/assets/js/utils.js",
     "/assets/fonts/Inter-Regular.woff2",
     "/assets/fonts/Inter-Medium.woff2",
     "/assets/fonts/Inter-Bold.woff2",
     "/assets/images/ui/logo.svg",
     "/assets/images/ui/arrow-right.svg",
     "/assets/images/ui/star.svg",
     "/data/anime-list.json",
     "/data/genres.json",
     "/data/recommendations.json" >>

OFFLINE_URL == "/offline.html"
PLACEHOLDER_URL == "/assets/images/placeholder.jpg"
OFFLINE_JSON == "{\"error\":\"Data unavailable offline\"}"

staticExtensions == << ".html", ".css", ".js", ".woff2", ".svg" >>
imageExtensions == << ".jpg", ".jpeg", ".png", ".webp", ".gif" >>
dataExtension == ".json"

(***************************************************************************)
(* The environment: bucket names that may exist before this version is     *)
(* installed, and the URLs the page asks for.  URLs are written as paths;  *)
(* the origin in front of them is taken to contain none of the extensions. *)
(***************************************************************************)
CurrentCaches == { STATIC_CACHE, DYNAMIC_CACHE, IMAGE_CACHE }
StaleCaches == { "startanime-static-v0.9.0", "other-app-cache" }
StaleOrder == << "startanime-static-v0.9.0", "other-app-cache" >>
CacheNames == CurrentCaches \cup StaleCaches

Manifest == { STATIC_FILES[i] : i \in DOMAIN STATIC_FILES }

ReqURLs ==
  { "/", "/index.html", "/data/genres.json",
    "/about.html", "/data/extra.json", "/assets/js/vendor.js",
    "/assets/images/anime/poster.png", "/api/search",
    OFFLINE_URL, PLACEHOLDER_URL }

Methods == { "GET", "POST" }

(***************************************************************************)
(* String.prototype.includes / endsWith                                    *)
(***************************************************************************)
includes(s, t) ==
  \E i \in 1..Len(s) :
     /\ i + Len(t) - 1 <= Len(s)
     /\ SubSeq(s, i, i + Len(t) - 1) = t

endsWith(s, t) ==
  /\ Len(t) <= Len(s)
  /\ SubSeq(s, Len(s) - Len(t) + 1, Len(s)) = t

(***************************************************************************)
(* Request classifier (sw.js:92-119)                                       *)
(***************************************************************************)
isStaticFile(url) ==
  \E i \in DOMAIN staticExtensions : includes(url, staticExtensions[i])

isImage(url) ==
  \E i \in DOMAIN imageExtensions : includes(url, imageExtensions[i])

isDataFile(url) == includes(url, dataExtension)

Strategy(url) ==
  IF isStaticFile(url) THEN "Static"
  ELSE IF isImage(url) THEN "Image"
  ELSE IF isDataFile(url) THEN "Data"
  ELSE "Dynamic"

(***************************************************************************)
(* Responses.  A response carries the URL it answers, its status, the      *)
(* version of the resource the network served, its body and content type.  *)
(* What respondWith receives is a response, undefined, or a rejection.     *)
(***************************************************************************)
NetResponse(url, status, ver) ==
  [kind |-> "response", url |-> url, status |-> status, ver |-> ver,
   body |-> "network", ctype |-> "server"]

JsonErrorResponse ==
  [kind |-> "response", url |-> "", status |-> 200, ver |-> 0,
   body |-> OFFLINE_JSON, ctype |-> "application/json"]

Undefined ==
  [kind |-> "undefined", url |-> "", status |-> 0, ver |-> 0,
   body |-> "", ctype |-> ""]

NetworkError ==
  [kind |-> "error", url |-> "", status |-> 0, ver |-> 0,
   body |-> "", ctype |-> ""]

Pending ==
  [kind |-> "pending", url |-> "", status |-> 0, ver |-> 0,
   body |-> "", ctype |-> ""]

\* every response taken as a success, whatever its status
okAnyResponse(r) == r.kind = "response"

ok(r) == r.kind = "response" /\ r.status >= 200 /\ r.status <= 299

Statuses == { 200, 404 }

\* what the network may answer for a URL: any version of the resource with
\* a success status, or a not-found response
NetworkResponses(url) ==
  { NetResponse(url, 200, ver) : ver \in 1..MaxBody }
    \cup { NetResponse(url, 404, 0) }


(***************************************************************************)
(* ComponentLoader: fragment files (components.js:45-57)                   *)
(***************************************************************************)
ComponentNames == { "header", "anime-card" }

TemplateUrl(componentName) ==
  "./components/" \o componentName \o "-template.html"

ComponentUrl(componentName) ==
  "./components/" \o componentName \o ".html"

\* A fetched file, as extractComponentContent sees it: its text, and what
\* the parsed document gives for the selectors the loader queries ("" where
\* querySelector finds nothing; body is the innerHTML of the body element).
TemplateFile ==
  [raw |-> " <!-- Component Template --><b>{{name}}</b> ",
   nav |-> "", card |-> "", body |-> "<b>{{name}}</b> "]

FullDocument ==
  [raw |-> "<html><body><nav class=header__nav>..</body></html>",
   nav |-> "<nav>{{ name }}</nav>", card |-> "<a>{{name}}</a>",
   body |-> "<nav>{{ name }}</nav><a>{{name}}</a>"]

BodyOnlyDocument ==
  [raw |-> "<html><body><p>..</p></body></html>",
   nav |-> "", card |-> "", body |-> "<p>{{name}}</p>"]

NoDocument == [raw |-> "", nav |-> "", card |-> "", body |-> ""]

Documents == { TemplateFile, FullDocument, BodyOnlyDocument }

\* the statuses of a response that is not ok, and their statusText
NotOkStatuses == { 404, 503 }

statusText(status) ==
  IF status = 404 THEN "Not Found" ELSE "Service Unavailable"

\* new Error(`HTTP ${response.status}: ${response.statusText}`)
HttpError(status) == "HTTP " \o ToString(status) \o ": " \o statusText(status)

\* what fetch rejects with when the network is unreachable
FetchTypeError == "TypeError: Failed to fetch"

(***************************************************************************)
(* extractComponentContent (components.js:72-139)                          *)
(***************************************************************************)
isSpace(ch) == ch = " "

RECURSIVE trimStart(_)
trimStart(s) ==
  IF Len(s) > 0 /\ isSpace(SubSeq(s, 1, 1))
  THEN trimStart(SubSeq(s, 2, Len(s)))
  ELSE s

RECURSIVE trimEnd(_)
trimEnd(s) ==
  IF Len(s) > 0 /\ isSpace(SubSeq(s, Len(s), Len(s)))
  THEN trimEnd(SubSeq(s, 1, Len(s) - 1))
  ELSE s

trim(s) == trimEnd(trimStart(s))

extractComponentContent(html, componentName) ==
  IF includes(html.raw, "<!--") /\ includes(html.raw, "Component Template -->")
  THEN trim(html.raw)
  ELSE CASE componentName \in { "header", "footer" } ->
              IF html.nav # "" THEN html.nav ELSE html.body
         [] componentName \in { "anime-card", "genre-card" } -> html.card
         [] OTHER -> html.body

(***************************************************************************)
(* processComponentTemplate (components.js:175-193).  The data object is   *)
(* the sequence of its << key, value >> pairs in Object.keys order.        *)
(***************************************************************************)
NoData == [given |-> FALSE, valid |-> TRUE, pairs |-> << >>]

DataObject(pairs) == [given |-> TRUE, valid |-> TRUE, pairs |-> pairs]

\* a data-component-data attribute that JSON.parse rejects
InvalidData == [given |-> TRUE, valid |-> FALSE, pairs |-> << >>]

DataSets ==
  { NoData,
    InvalidData,
    DataObject(<< << "name", "Naruto" >> >>),
    DataObject(<< << "name", "$&" >> >>),
    DataObject(<< << "name", "{{id}}" >>, << "id", "7" >> >>) }

RECURSIVE skipSpaces(_, _)
\* the first position at or after i of s that holds no whitespace
skipSpaces(s, i) ==
  IF i <= Len(s) /\ isSpace(SubSeq(s, i, i)) THEN skipSpaces(s, i + 1) ELSE i

startsAt(s, i, t) ==
  /\ i + Len(t) - 1 <= Len(s)
  /\ SubSeq(s, i, i + Len(t) - 1) = t

\* the length of the match of /{{\s*key\s*}}/ that starts at position i of
\* s, 0 if there is none
matchLength(s, i, key) ==
  IF ~startsAt(s, i, "{{") THEN 0
  ELSE LET k == skipSpaces(s, i + 2)
       IN  IF ~startsAt(s, k, key) THEN 0
           ELSE LET e == skipSpaces(s, k + Len(key))
                IN  IF startsAt(s, e, "}}") THEN e + 2 - i ELSE 0

RECURSIVE expandReplacement(_, _)
\* String.prototype.replace with a string as replacement: $$ stands for a
\* dollar sign and $& for the matched text
expandReplacement(value, matched) ==
  IF value = "" THEN ""
  ELSE IF startsAt(value, 1, "$$")
  THEN "$" \o expandReplacement(SubSeq(value, 3, Len(value)), matched)
  ELSE IF startsAt(value, 1, "$&")
  THEN matched \o expandReplacement(SubSeq(value, 3, Len(value)), matched)
  ELSE SubSeq(value, 1, 1)
         \o expandReplacement(SubSeq(value, 2, Len(value)), matched)

RECURSIVE replaceFrom(_, _, _, _)
\* processedTemplate.replace(placeholder, data[key]) with the g flag, from
\* position i on: matches are found left to right in the subject as it was
replaceFrom(s, i, key, value) ==
  IF i > Len(s) THEN ""
  ELSE LET n == matchLength(s, i, key)
       IN  IF n > 0
           THEN expandReplacement(value, SubSeq(s, i, i + n - 1))
                  \o replaceFrom(s, i + n, key, value)
           ELSE SubSeq(s, i, i) \o replaceFrom(s, i + 1, key, value)

RECURSIVE forEachKey(_, _)
\* Object.keys(data).forEach: one replace after the other
forEachKey(processedTemplate, pairs) ==
  IF pairs = << >> THEN processedTemplate
  ELSE forEachKey(replaceFrom(processedTemplate, 1, pairs[1][1], pairs[1][2]),
                  Tail(pairs))

processComponentTemplate(template, data) ==
  IF ~data.given THEN template
  ELSE IF ~data.valid THEN template
  ELSE forEachKey(template, data.pairs)

(***************************************************************************)
(* State                                                                   *)
(***************************************************************************)
VARIABLES
  phase,           \* where the worker is in its lifecycle
  installResult,   \* the promise install handed to event.waitUntil
  skipWaitingFlag, \* self.skipWaiting() has been called
  oldControls,     \* a worker of an earlier version still controls the page
  cacheOrder,      \* CacheStorage: the existing buckets, in creation order
  store,           \* CacheStorage: the entries of each bucket, by request key
  activateKeys,    \* activate: the cacheNames that caches.keys() resolved to
  activatePending, \* activate: the caches.delete calls not yet completed
  activateDeleted, \* activate: the caches.delete calls completed
  precache,        \* the entries install stored for the manifest
  req,             \* the fetch handlers in flight, one per slot
  msg,             \* the CACHE_URLS message being handled
  nFetch,          \* fetch events dispatched so far
  nMsg,            \* messages posted so far
  deleteSeen,      \* the bucket names DELETE_CACHE messages have named
  bypassed,        \* non-GET fetch events the worker let through
  errorLog,        \* what console.error has printed
  outbox,          \* what the worker has posted to its clients
  componentCache,  \* loader: the memo, component name -> markup
  call,            \* loader: the calls in flight or finished, one per slot
  innerHTML,       \* loader: the contents of the element each call was given
  nCalls,          \* loader: calls started so far
  nClear           \* loader: clearCache calls so far

vars == << phase, installResult, skipWaitingFlag, oldControls, cacheOrder,
           store, activateKeys, activatePending, activateDeleted, precache,
           req, msg, nFetch, nMsg, deleteSeen, bypassed, errorLog, outbox,
           componentCache, call, innerHTML, nCalls, nClear >>

\* the page side: nothing the worker's handlers do changes it
pageVars == << componentCache, call, innerHTML, nCalls, nClear >>

\* the worker side: nothing the loader does changes it
workerVars == << phase, installResult, skipWaitingFlag, oldControls,
                 cacheOrder, store, activateKeys, activatePending,
                 activateDeleted, precache, req, msg, nFetch, nMsg,
                 deleteSeen, bypassed, errorLog, outbox >>

lifecycleVars == << phase, installResult, skipWaitingFlag, oldControls,
                    activateKeys, activatePending, activateDeleted >>

Slots == 1..NumSlots

Range(f) == { f[i] : i \in DOMAIN f }

Min(S) == CHOOSE m \in S : \A n \in S : m <= n

(***************************************************************************)
(* The cache store (CacheStorage / Cache of the hosting runtime)           *)
(***************************************************************************)
EmptyBucket == [u \in {} |-> Undefined]

\* caches.open(name): the bucket is created, last in order, if it is missing
cachesOpen(order, name) ==
  IF name \in Range(order) THEN order ELSE Append(order, name)

\* cache.put(key, response) on one bucket
\* an entry the bucket holds already is kept
cachePutIfAbsent(bucket, key, r) ==
  [u \in (DOMAIN bucket) \cup {key} |->
     IF u \in DOMAIN bucket THEN bucket[u] ELSE r]

cachePut(bucket, key, r) ==
  [u \in (DOMAIN bucket) \cup {key} |-> IF u = key THEN r ELSE bucket[u]]

\* cache.addAll: every fetched response is stored under its URL
cacheAddAll(bucket, urls, ver) ==
  [u \in (DOMAIN bucket) \cup urls |->
     IF u \in urls THEN NetResponse(u, 200, ver) ELSE bucket[u]]

\* caches.match(key): the entry of the first bucket, in creation order,
\* that holds the key; undefined if none does
cachesMatch(order, st, key) ==
  LET hits == { i \in DOMAIN order : key \in DOMAIN st[order[i]] }
  IN  IF hits = {} THEN Undefined ELSE st[order[Min(hits)]][key]

\* every bucket emptied, not only the named one
cachesDeleteStoreAll(st, name) == [n \in DOMAIN st |-> EmptyBucket]

\* caches.delete(name): the bucket leaves the store
cachesDeleteOrder(order, name) ==
  SelectSeq(order, LAMBDA n : n # name)

cachesDeleteStore(st, name) == [st EXCEPT ![name] = EmptyBucket]

\* a Cache object obtained from caches.open stays usable after its bucket
\* is deleted, but what is written through it is no longer in the store
orphan(h, bucketName, name) ==
  IF h = "live" /\ bucketName = name THEN "orphan" ELSE h

(***************************************************************************)
(* Buckets the handlers write to (sw.js:135, 166, 193, 216)                *)
(***************************************************************************)
\* every handler writing to the static bucket
BucketOfAllStatic(strategy) == STATIC_CACHE

BucketOf(strategy) ==
  CASE strategy = "Static" -> STATIC_CACHE
    [] strategy = "Image" -> IMAGE_CACHE
    [] strategy = "Data" -> DYNAMIC_CACHE
    [] strategy = "Dynamic" -> DYNAMIC_CACHE

IdleSlot ==
  [pc |-> "idle", url |-> "", method |-> "", strategy |-> "",
   net |-> Pending,
   result |-> Pending, handle |-> "none", fetches |-> 0]

IdleMsg ==
  [pc |-> "idle", urls |-> {}, handle |-> "none", fetched |-> "",
   waitUntil |-> ""]

\* new Map()
EmptyMap == [n \in {} |-> ""]

\* A call of the loader.  requested, first and second are the requests it
\* made and how each ended; markup is what loadComponent returned to it,
\* value what the call itself returned, error what loadComponent threw.
\* doneBefore (the calls that had returned when it started) and
\* clearsAtStart / clearsAtEnd (the clearCache calls made before it started
\* / returned) place the call in time.

Calls == 1..NumCalls

IdleCall ==
  [pc |-> "idle", op |-> "", name |-> "", data |-> NoData,
   requested |-> << >>, first |-> "", second |-> "", html |-> NoDocument,
   outcome |-> "", markup |-> "", value |-> "", error |-> "",
   doneBefore |-> {}, clearsAtStart |-> 0, clearsAtEnd |-> 0]

\* what the element a call is given holds before the call
InitialContent == "<i>loading</i>"

\* components.js:7-11: the loader as its constructor leaves it
LoaderInit ==
  /\ componentCache = EmptyMap
  /\ call = [c \in Calls |-> IdleCall]
  /\ innerHTML = [c \in Calls |-> InitialContent]
  /\ nCalls = 0
  /\ nClear = 0

\* what a stale bucket left by an earlier version holds
StaleContent == [u \in {"/", "/index.html"} |-> NetResponse(u, 200, 0)]

(***************************************************************************)
(* Init: the worker script has been evaluated and install is dispatched.   *)
(***************************************************************************)
Init ==
  /\ phase = "install_open"
  /\ installResult = "pending"
  /\ skipWaitingFlag = FALSE
  /\ oldControls \in BOOLEAN
  /\ \E pre \in SUBSET StaleCaches :
        /\ cacheOrder = SelectSeq(StaleOrder, LAMBDA n : n \in pre)
        /\ store = [n \in CacheNames |->
                      IF n \in pre THEN StaleContent ELSE EmptyBucket]
  /\ activateKeys = {}
  /\ activatePending = {}
  /\ activateDeleted = {}
  /\ precache = EmptyBucket
  /\ req = [i \in Slots |-> IdleSlot]
  /\ msg = IdleMsg
  /\ nFetch = 0
  /\ nMsg = 0
  /\ deleteSeen = {}
  /\ bypassed = 0
  /\ errorLog = {}
  /\ outbox = {}
  /\ LoaderInit

(***************************************************************************)
(* The event types the hosting runtime dispatches on the worker's global   *)
(* scope, among those sw.js registers a listener for with                  *)
(* self.addEventListener.  'updatefound' is an event of the registration   *)
(* object and 'controllerchange' one of the page's serviceWorker           *)
(* container: a listener registered for them on self is never called.      *)
(***************************************************************************)
WorkerScopeEvents == { "install", "activate", "fetch", "message" }

\* sw.js:421-439: the statechange listener the updatefound listener would
\* register, run when the new worker's state becomes 'installed'
updatefoundListener(ob) ==
  IF "updatefound" \in WorkerScopeEvents /\ oldControls
  THEN ob \cup { "UPDATE_AVAILABLE" }
  ELSE ob

\* sw.js:441-452
controllerchangeListener(ob) ==
  IF "controllerchange" \in WorkerScopeEvents
  THEN ob \cup { "RELOAD_PAGE" }
  ELSE ob

(***************************************************************************)
(* install listener (sw.js:38-55)                                          *)
(***************************************************************************)
\* caches.open(STATIC_CACHE)
InstallOpen ==
  /\ phase = "install_open"
  /\ cacheOrder' = cachesOpen(cacheOrder, STATIC_CACHE)
  /\ phase' = "install_addAll"
  /\ UNCHANGED << pageVars, outbox, installResult, skipWaitingFlag, oldControls, store,
                  activateKeys, activatePending, activateDeleted, precache,
                  req, msg, nFetch, nMsg, deleteSeen, bypassed, errorLog >>

\* cache.addAll(STATIC_FILES) resolves: every URL was fetched and stored
\* (nothing but install opens the static bucket before activation, so the
\* Cache object install holds is in the store unless the bucket was deleted)
InstallAddAllOk ==
  /\ phase = "install_addAll"
  /\ \E ver \in 1..MaxBody :
        /\ precache' = cacheAddAll(EmptyBucket, Manifest, ver)
        /\ store' = IF STATIC_CACHE \in Range(cacheOrder)
                    THEN [store EXCEPT ![STATIC_CACHE] =
                            cacheAddAll(@, Manifest, ver)]
                    ELSE store
  /\ phase' = "install_skip"
  /\ UNCHANGED << pageVars, outbox, installResult, skipWaitingFlag, oldControls, cacheOrder,
                  activateKeys, activatePending, activateDeleted,
                  req, msg, nFetch, nMsg, deleteSeen, bypassed, errorLog >>

\* cache.addAll rejects (some URL unfetchable): nothing is stored, the
\* .catch logs and the chain resolves
InstallAddAllFail ==
  /\ phase = "install_addAll"
  /\ errorLog' = errorLog \cup {"Failed to cache static files"}
  /\ installResult' = "fulfilled"
  /\ phase' = "installed"
  /\ outbox' = updatefoundListener(outbox)
  /\ UNCHANGED << pageVars, skipWaitingFlag, oldControls, cacheOrder, store,
                  activateKeys, activatePending, activateDeleted, precache,
                  req, msg, nFetch, nMsg, deleteSeen, bypassed >>

\* .then(() => self.skipWaiting())
InstallSkipWaiting ==
  /\ phase = "install_skip"
  /\ skipWaitingFlag' = TRUE
  /\ installResult' = "fulfilled"
  /\ phase' = "installed"
  /\ outbox' = updatefoundListener(outbox)
  /\ UNCHANGED << pageVars, oldControls, cacheOrder, store,
                  activateKeys, activatePending, activateDeleted, precache,
                  req, msg, nFetch, nMsg, deleteSeen, bypassed, errorLog >>

(***************************************************************************)
(* The hosting runtime: a worker whose install promise was fulfilled is    *)
(* activated once no earlier version controls the page or skipWaiting was  *)
(* called; one whose install promise was rejected becomes redundant.       *)
(***************************************************************************)
RuntimeAdvance ==
  /\ phase = "installed"
  /\ installResult # "fulfilled" \/ skipWaitingFlag \/ ~oldControls
  /\ phase' = IF installResult = "fulfilled" THEN "activate_keys"
              ELSE "redundant"
  /\ UNCHANGED << pageVars, outbox, installResult, skipWaitingFlag, oldControls, cacheOrder,
                  store, activateKeys, activatePending, activateDeleted,
                  precache, req, msg, nFetch, nMsg, deleteSeen, bypassed,
                  errorLog >>

\* the pages the earlier version controlled are closed
OldClientsClose ==
  /\ oldControls
  /\ phase \notin {"activate_keys", "activate_delete", "activated"}
  /\ oldControls' = FALSE
  /\ UNCHANGED << pageVars, outbox, phase, installResult, skipWaitingFlag, cacheOrder,
                  store, activateKeys, activatePending, activateDeleted,
                  precache, req, msg, nFetch, nMsg, deleteSeen, bypassed,
                  errorLog >>

(***************************************************************************)
(* activate listener (sw.js:58-80)                                         *)
(***************************************************************************)
isStaleCacheNoDynamic(cacheName) ==
  /\ cacheName # STATIC_CACHE
  /\ cacheName # IMAGE_CACHE

isStaleCacheOwnPrefix(cacheName) ==
  /\ cacheName # STATIC_CACHE
  /\ cacheName # DYNAMIC_CACHE
  /\ cacheName # IMAGE_CACHE
  /\ includes(cacheName, "startanime-")

isStaleCache(cacheName) ==
  /\ cacheName # STATIC_CACHE
  /\ cacheName # DYNAMIC_CACHE
  /\ cacheName # IMAGE_CACHE

\* caches.keys() resolves; the map callback calls caches.delete for each
\* stale name
ActivateKeys ==
  /\ phase = "activate_keys"
  /\ activateKeys' = Range(cacheOrder)
  /\ activatePending' = { n \in Range(cacheOrder) : isStaleCache(n) }
  /\ phase' = "activate_delete"
  /\ UNCHANGED << pageVars, outbox, installResult, skipWaitingFlag, oldControls, cacheOrder,
                  store, activateDeleted, precache, req, msg, nFetch, nMsg,
                  deleteSeen, bypassed, errorLog >>

\* one caches.delete(cacheName) completes
ActivateDelete(n) ==
  /\ phase = "activate_delete"
  /\ n \in activatePending
  /\ activatePending' = activatePending \ {n}
  /\ activateDeleted' = activateDeleted \cup {n}
  /\ cacheOrder' = cachesDeleteOrder(cacheOrder, n)
  /\ store' = cachesDeleteStore(store, n)
  /\ req' = [i \in Slots |->
               [req[i] EXCEPT !.handle =
                  orphan(@, BucketOf(req[i].strategy), n)]]
  /\ msg' = [msg EXCEPT !.handle = orphan(@, DYNAMIC_CACHE, n)]
  /\ UNCHANGED << pageVars, outbox, phase, installResult, skipWaitingFlag, oldControls,
                  activateKeys, precache, nFetch, nMsg, deleteSeen,
                  bypassed, errorLog >>

\* Promise.all resolved: self.clients.claim(); the handler's locals are gone
ActivateClaim ==
  /\ phase = "activate_delete"
  /\ activatePending = {}
  /\ oldControls' = FALSE
  /\ activateKeys' = {}
  /\ activateDeleted' = {}
  /\ phase' = "activated"
  /\ outbox' = controllerchangeListener(outbox)
  /\ UNCHANGED << pageVars, installResult, skipWaitingFlag, cacheOrder, store,
                  activatePending, precache,
                  req, msg, nFetch, nMsg, deleteSeen, bypassed, errorLog >>

(***************************************************************************)
(* fetch listeners (sw.js:83-102 and 379-396)                              *)
(***************************************************************************)
FreeSlots == { i \in Slots : req[i].pc \in {"idle", "done"} }

\* A fetch event reaches the active worker.  Non-GET requests are left
\* alone; a GET request is handed to the handler its classification names
\* (a slot whose response the page has consumed is free again).
\* The cache-first handlers start at caches.match, the network-first one at
\* fetch.  The second listener reads event.response, which no fetch event
\* has, so it throws and the error listener logs it.
\* every method handed to a handler
FetchEventAnyMethod(url, method) ==
  /\ phase = "activated"
  /\ nFetch < MaxFetch
  /\ nFetch + nMsg < MaxEvents
  /\ nFetch' = nFetch + 1
  /\ errorLog' = errorLog \cup {"Error occurred"}
  /\ FreeSlots # {}
  /\ req' = [req EXCEPT ![Min(FreeSlots)] =
              [pc |-> IF Strategy(url) = "Dynamic" THEN "fetch" ELSE "match",
               url |-> url, method |-> method, strategy |-> Strategy(url),
               net |-> Pending, result |-> Pending,
               handle |-> "none", fetches |-> 0]]
  /\ UNCHANGED << pageVars, outbox, lifecycleVars, cacheOrder, store, precache, msg,
                  nMsg, deleteSeen, bypassed >>

FetchEvent(url, method) ==
  /\ phase = "activated"
  /\ nFetch < MaxFetch
  /\ nFetch + nMsg < MaxEvents
  /\ nFetch' = nFetch + 1
  /\ errorLog' = errorLog \cup {"Error occurred"}
  /\ IF method # "GET"
     THEN /\ bypassed' = bypassed + 1
          /\ req' = req
     ELSE /\ FreeSlots # {}
          /\ req' = [req EXCEPT ![Min(FreeSlots)] =
                      [pc |-> IF Strategy(url) = "Dynamic" THEN "fetch"
                              ELSE "match",
                       url |-> url, method |-> method,
                       strategy |-> Strategy(url),
                       net |-> Pending, result |-> Pending,
                       handle |-> "none", fetches |-> 0]]
          /\ bypassed' = bypassed
  /\ UNCHANGED << pageVars, outbox, lifecycleVars, cacheOrder, store, precache, msg, nMsg,
                  deleteSeen >>

(***************************************************************************)
(* handleStaticFile / handleImage / handleDataFile: cache first            *)
(* (sw.js:125-128, 156-159, 183-186)                                       *)
(***************************************************************************)
\* the cached entry is looked up but the network is asked all the same
CacheFirstMatchRevalidate(i) ==
  /\ req[i].pc = "match"
  /\ req' = [req EXCEPT ![i] = [@ EXCEPT !.pc = "fetch"]]
  /\ UNCHANGED << pageVars, outbox, lifecycleVars, cacheOrder, store, precache, msg, nFetch,
                  nMsg, deleteSeen, bypassed, errorLog >>

\* cache.match on the handler's own bucket instead of caches.match
CacheFirstMatchOwnBucket(i) ==
  /\ req[i].pc = "match"
  /\ LET own == BucketOf(req[i].strategy)
         cachedResponse ==
           IF own \in Range(cacheOrder) /\ req[i].url \in DOMAIN store[own]
           THEN store[own][req[i].url] ELSE Undefined
     IN  req' = [req EXCEPT ![i] =
                   IF cachedResponse.kind = "response"
                   THEN [@ EXCEPT !.result = cachedResponse, !.pc = "done"]
                   ELSE [@ EXCEPT !.pc = "fetch"]]
  /\ UNCHANGED << pageVars, outbox, lifecycleVars, cacheOrder, store, precache, msg,
                  nFetch, nMsg, deleteSeen, bypassed, errorLog >>

CacheFirstMatch(i) ==
  /\ req[i].pc = "match"
  /\ LET cachedResponse == cachesMatch(cacheOrder, store, req[i].url)
     IN  req' = [req EXCEPT ![i] =
                   IF cachedResponse.kind = "response"
                   THEN [@ EXCEPT !.result = cachedResponse, !.pc = "done"]
                   ELSE [@ EXCEPT !.pc = "fetch"]]
  /\ UNCHANGED << pageVars, outbox, lifecycleVars, cacheOrder, store, precache, msg, nFetch,
                  nMsg, deleteSeen, bypassed, errorLog >>

(***************************************************************************)
(* await fetch(request) resolves (sw.js:131-139, 162-170, 189-197,         *)
(* 212-220): a response with a success status goes on to be cached, any    *)
(* other response is returned as it is.                                    *)
(***************************************************************************)
\* a response that is not ok treated as a failed fetch: the handler goes on
\* to its fallback lookup
FetchResolveRecover(i, status, ver) ==
  /\ req[i].pc = "fetch"
  /\ NetResponse(req[i].url, status, ver) \in NetworkResponses(req[i].url)
  /\ req' = [req EXCEPT ![i] =
                LET networkResponse == NetResponse(req[i].url, status, ver)
                IN  IF ok(networkResponse)
                    THEN [@ EXCEPT !.net = networkResponse,
                                   !.fetches = @ + 1, !.pc = "open"]
                    ELSE [@ EXCEPT !.net = networkResponse,
                                   !.fetches = @ + 1, !.pc = "fallback"]]
  /\ UNCHANGED << pageVars, outbox, lifecycleVars, cacheOrder, store,
                  precache, msg, nFetch, nMsg, deleteSeen, bypassed,
                  errorLog >>

FetchResolve(i, status, ver) ==
  /\ req[i].pc = "fetch"
  /\ NetResponse(req[i].url, status, ver) \in NetworkResponses(req[i].url)
  /\ req' = [req EXCEPT ![i] =
                LET networkResponse == NetResponse(req[i].url, status, ver)
                IN  IF ok(networkResponse)
                    THEN [@ EXCEPT !.net = networkResponse,
                                   !.fetches = @ + 1, !.pc = "open"]
                    ELSE [@ EXCEPT !.net = networkResponse,
                                   !.fetches = @ + 1,
                                   !.result = networkResponse,
                                   !.pc = "done"]]
  /\ UNCHANGED << pageVars, outbox, lifecycleVars, cacheOrder, store, precache, msg, nFetch,
                  nMsg, deleteSeen, bypassed, errorLog >>

(***************************************************************************)
(* await fetch(request) rejects: the catch block of each handler           *)
(***************************************************************************)
\* sw.js:140-149
handleStaticFileCatch(r) ==
  IF includes(r.url, ".html")
  THEN [r EXCEPT !.fetches = @ + 1, !.pc = "fallback"]
  ELSE [r EXCEPT !.fetches = @ + 1, !.result = NetworkError, !.pc = "done"]

\* sw.js:171-176
handleImageCatch(r) ==
  [r EXCEPT !.fetches = @ + 1, !.pc = "fallback"]

\* sw.js:198-205
handleDataFileCatch(r) ==
  [r EXCEPT !.fetches = @ + 1, !.result = JsonErrorResponse, !.pc = "done"]

\* the network error rethrown without looking at the cache
handleDynamicRequestCatchRethrow(r) ==
  [r EXCEPT !.fetches = @ + 1, !.result = NetworkError, !.pc = "done"]

\* sw.js:221-225
handleDynamicRequestCatch(r) ==
  [r EXCEPT !.fetches = @ + 1, !.pc = "fallback"]

CatchLog(strategy) ==
  CASE strategy = "Static" -> "Failed to fetch static file"
    [] strategy = "Image" -> "Failed to fetch image"
    [] strategy = "Data" -> "Failed to fetch data file"
    [] strategy = "Dynamic" -> "Failed to fetch dynamic request"

FetchReject(i) ==
  /\ req[i].pc = "fetch"
  /\ req' = [req EXCEPT ![i] =
              CASE @.strategy = "Static" -> handleStaticFileCatch(@)
                [] @.strategy = "Image" -> handleImageCatch(@)
                [] @.strategy = "Data" -> handleDataFileCatch(@)
                [] @.strategy = "Dynamic" -> handleDynamicRequestCatch(@)]
  /\ errorLog' = errorLog \cup { CatchLog(req[i].strategy) }
  /\ UNCHANGED << pageVars, outbox, lifecycleVars, cacheOrder, store, precache, msg, nFetch,
                  nMsg, deleteSeen, bypassed >>

(***************************************************************************)
(* The caches.match of the catch blocks (sw.js:145, 175, 225-230)          *)
(***************************************************************************)
FallbackKey(r) ==
  CASE r.strategy = "Static" -> OFFLINE_URL
    [] r.strategy = "Image" -> PLACEHOLDER_URL
    [] r.strategy = "Data" -> r.url
    [] r.strategy = "Dynamic" -> r.url

\* the catch blocks looking only in the bucket their handler writes to
FallbackMatchOwnBucket(i) ==
  /\ req[i].pc = "fallback"
  /\ LET own == BucketOf(req[i].strategy)
         key == FallbackKey(req[i])
         cachedResponse ==
           IF own \in Range(cacheOrder) /\ key \in DOMAIN store[own]
           THEN store[own][key] ELSE Undefined
     IN  req' = [req EXCEPT ![i] =
                   [@ EXCEPT !.pc = "done",
                             !.result =
                                IF req[i].strategy = "Dynamic"
                                   /\ cachedResponse.kind # "response"
                                THEN NetworkError
                                ELSE cachedResponse]]
  /\ UNCHANGED << pageVars, outbox, lifecycleVars, cacheOrder, store, precache, msg,
                  nFetch, nMsg, deleteSeen, bypassed, errorLog >>

FallbackMatch(i) ==
  /\ req[i].pc = "fallback"
  /\ LET cachedResponse ==
           cachesMatch(cacheOrder, store, FallbackKey(req[i]))
     IN  req' = [req EXCEPT ![i] =
                   [@ EXCEPT !.pc = "done",
                             !.result =
                                IF req[i].strategy = "Dynamic"
                                   /\ cachedResponse.kind # "response"
                                THEN NetworkError
                                ELSE cachedResponse]]
  /\ UNCHANGED << pageVars, outbox, lifecycleVars, cacheOrder, store, precache, msg, nFetch,
                  nMsg, deleteSeen, bypassed, errorLog >>

(***************************************************************************)
(* const cache = await caches.open(...); cache.put(...); return            *)
(* networkResponse  (sw.js:135-139, 166-170, 193-197, 216-220).  The put   *)
(* is not awaited: the handler returns while the write is outstanding.     *)
(***************************************************************************)
\* the put awaited: the handler returns when the entry is in the bucket
OpenAndReturnAwaitPut(i) ==
  /\ req[i].pc = "open"
  /\ cacheOrder' = cachesOpen(cacheOrder, BucketOf(req[i].strategy))
  /\ store' = [store EXCEPT ![BucketOf(req[i].strategy)] =
                 cachePut(@, req[i].url, req[i].net)]
  /\ req' = [req EXCEPT ![i] =
              [@ EXCEPT !.handle = "live", !.result = req[i].net,
                        !.pc = "done"]]
  /\ UNCHANGED << pageVars, outbox, lifecycleVars, precache, msg, nFetch,
                  nMsg, deleteSeen, bypassed, errorLog >>

OpenAndReturn(i) ==
  /\ req[i].pc = "open"
  /\ cacheOrder' = cachesOpen(cacheOrder, BucketOf(req[i].strategy))
  /\ req' = [req EXCEPT ![i] =
              [@ EXCEPT !.handle = "live", !.result = req[i].net,
                        !.pc = "put"]]
  /\ UNCHANGED << pageVars, outbox, lifecycleVars, store, precache, msg, nFetch, nMsg,
                  deleteSeen, bypassed, errorLog >>

\* the outstanding cache.put(request, networkResponse.clone()) completes
PutComplete(i) ==
  /\ req[i].pc = "put"
  /\ store' = IF req[i].handle = "live"
              THEN [store EXCEPT ![BucketOf(req[i].strategy)] =
                      cachePut(@, req[i].url, req[i].net)]
              ELSE store
  /\ req' = [req EXCEPT ![i] = [@ EXCEPT !.pc = "done"]]
  /\ UNCHANGED << pageVars, outbox, lifecycleVars, cacheOrder, precache, msg, nFetch, nMsg,
                  deleteSeen, bypassed, errorLog >>

(***************************************************************************)
(* message listener (sw.js:308-329)                                        *)
(***************************************************************************)
CacheUrlLists ==
  { {"/api/search"}, {"/", "/assets/images/anime/poster.png"} }

Reachable == phase \notin {"install_open", "redundant"}

\* { type: 'SKIP_WAITING' }
MsgSkipWaiting ==
  /\ Reachable
  /\ nMsg < MaxMsg
  /\ nFetch + nMsg < MaxEvents
  /\ nMsg' = nMsg + 1
  /\ skipWaitingFlag' = TRUE
  /\ UNCHANGED << pageVars, outbox, phase, installResult, oldControls, cacheOrder, store,
                  activateKeys, activatePending, activateDeleted, precache,
                  req, msg, nFetch, deleteSeen, bypassed, errorLog >>

\* { type: 'CACHE_URLS', urls }: caches.open(DYNAMIC_CACHE)
MsgCacheUrls(urls) ==
  /\ Reachable
  /\ nMsg < MaxMsg
  /\ nFetch + nMsg < MaxEvents
  /\ msg.pc \in {"idle", "done"}
  /\ nMsg' = nMsg + 1
  /\ cacheOrder' = cachesOpen(cacheOrder, DYNAMIC_CACHE)
  /\ msg' = [pc |-> "addAll", urls |-> urls, handle |-> "live",
             fetched |-> "", waitUntil |-> "pending"]
  /\ UNCHANGED << pageVars, outbox, lifecycleVars, store, precache, req, nFetch, deleteSeen,
                  bypassed, errorLog >>

\* cache.addAll(event.data.urls) resolves: every URL fetched and stored
CacheUrlsAddAllOk(ver) ==
  /\ msg.pc = "addAll"
  /\ store' = IF msg.handle = "live"
              THEN [store EXCEPT ![DYNAMIC_CACHE] =
                      cacheAddAll(@, msg.urls, ver)]
              ELSE store
  /\ msg' = [msg EXCEPT !.pc = "done", !.fetched = "all",
                        !.waitUntil = "fulfilled"]
  /\ UNCHANGED << pageVars, outbox, lifecycleVars, cacheOrder, precache, req, nFetch, nMsg,
                  deleteSeen, bypassed, errorLog >>

\* cache.add called for one URL after the other: what was fetched before
\* the failure stays in the bucket
CacheUrlsAddAllPartial ==
  /\ msg.pc = "addAll"
  /\ \E u \in msg.urls, ver \in 1..MaxBody :
        store' = IF msg.handle = "live"
                 THEN [store EXCEPT ![DYNAMIC_CACHE] =
                         cacheAddAll(@, {u}, ver)]
                 ELSE store
  /\ msg' = [msg EXCEPT !.pc = "done", !.fetched = "failed",
                        !.waitUntil = "rejected"]
  /\ UNCHANGED << pageVars, outbox, lifecycleVars, cacheOrder, precache, req,
                  nFetch, nMsg, deleteSeen, bypassed, errorLog >>

\* cache.addAll rejects: some URL was unfetchable, nothing is stored
CacheUrlsAddAllFail ==
  /\ msg.pc = "addAll"
  /\ msg' = [msg EXCEPT !.pc = "done", !.fetched = "failed",
                        !.waitUntil = "rejected"]
  /\ UNCHANGED << pageVars, outbox, lifecycleVars, cacheOrder, store, precache, req, nFetch,
                  nMsg, deleteSeen, bypassed, errorLog >>

\* { type: 'DELETE_CACHE', cacheName }: caches.delete(cacheName)
MsgDeleteCache(cacheName) ==
  /\ Reachable
  /\ nMsg < MaxMsg
  /\ nFetch + nMsg < MaxEvents
  /\ nMsg' = nMsg + 1
  /\ deleteSeen' = deleteSeen \cup {cacheName}
  /\ cacheOrder' = cachesDeleteOrder(cacheOrder, cacheName)
  /\ store' = cachesDeleteStore(store, cacheName)
  /\ req' = [i \in Slots |->
               [req[i] EXCEPT !.handle =
                  orphan(@, BucketOf(req[i].strategy), cacheName)]]
  /\ msg' = [msg EXCEPT !.handle = orphan(@, DYNAMIC_CACHE, cacheName)]
  /\ UNCHANGED << pageVars, outbox, lifecycleVars, precache, nFetch, bypassed, errorLog >>

(***************************************************************************)
(* Specification                                                           *)
(***************************************************************************)
Next ==
  \/ InstallOpen
  \/ InstallAddAllOk
  \/ InstallAddAllFail
  \/ InstallSkipWaiting
  \/ RuntimeAdvance
  \/ OldClientsClose
  \/ ActivateKeys
  \/ \E n \in CacheNames : ActivateDelete(n)
  \/ ActivateClaim
  \/ \E url \in ReqURLs, method \in Methods : FetchEvent(url, method)
  \/ \E i \in Slots : CacheFirstMatch(i)
  \/ \E i \in Slots, status \in Statuses, ver \in 0..MaxBody :
        FetchResolve(i, status, ver)
  \/ \E i \in Slots : FetchReject(i)
  \/ \E i \in Slots : FallbackMatch(i)
  \/ \E i \in Slots : OpenAndReturn(i)
  \/ \E i \in Slots : PutComplete(i)
  \/ MsgSkipWaiting
  \/ \E urls \in CacheUrlLists : MsgCacheUrls(urls)
  \/ \E ver \in 1..MaxBody : CacheUrlsAddAllOk(ver)
  \/ CacheUrlsAddAllFail
  \/ \E cacheName \in CacheNames : MsgDeleteCache(cacheName)

Spec == Init /\ [][Next]_vars

\* The steps the worker and its runtime take by themselves: a handler that
\* awaits a promise is resumed when the promise settles, and the runtime
\* activates a worker that is entitled to it.  Events from outside (fetch
\* events, messages, the old version's pages closing) may never come.
WorkerSteps ==
  \/ InstallOpen
  \/ InstallAddAllOk
  \/ InstallAddAllFail
  \/ InstallSkipWaiting
  \/ RuntimeAdvance
  \/ ActivateKeys
  \/ \E n \in CacheNames : ActivateDelete(n)
  \/ ActivateClaim
  \/ \E i \in Slots : CacheFirstMatch(i)
  \/ \E i \in Slots, status \in Statuses, ver \in 0..MaxBody :
        FetchResolve(i, status, ver)
  \/ \E i \in Slots : FetchReject(i)
  \/ \E i \in Slots : FallbackMatch(i)
  \/ \E i \in Slots : OpenAndReturn(i)
  \/ \E i \in Slots : PutComplete(i)
  \/ \E ver \in 1..MaxBody : CacheUrlsAddAllOk(ver)
  \/ CacheUrlsAddAllFail

FairSpec == Spec /\ WF_vars(WorkerSteps)

(***************************************************************************)
(* ComponentLoader.loadComponent and its callers (components.js:40-67,     *)
(* 144-170, 198-217).  A call is loadComponent itself (as preloadComponents*)
(* calls it), injectComponent, or the callback setupComponentPlaceholders  *)
(* runs for one placeholder element; the last two await loadComponent and  *)
(* then go on in the same turn.                                            *)
(***************************************************************************)
Operations == { "loadComponent", "injectComponent", "placeholder" }

\* the slot a new call takes: an unused one, or else that of a call that
\* has returned
FreeCalls ==
  IF \E c \in Calls : call[c].pc = "idle"
  THEN { c \in Calls : call[c].pc = "idle" }
  ELSE { c \in Calls : call[c].pc = "done" }

MapSet(map, key, v) ==
  [n \in (DOMAIN map) \cup {key} |-> IF n = key THEN v ELSE map[n]]

\* components.js:167
ErrorMarker(componentName) ==
  "<div class=\"component-error\">Failed to load component: "
    \o componentName \o "</div>"

\* the catch block writing the marker the placeholders get
injectComponentCatchMarker(content, componentName) ==
  ErrorMarker(componentName)

\* components.js:213-216: console.error, return false
injectComponentCatch(content, componentName) == content

\* components.js:165-168
placeholderCatch(content, componentName) == ErrorMarker(componentName)

\* loadComponent returned componentHTML to the caller r, whose element
\* holds content
Loaded(c, r, content, componentHTML) ==
  /\ call' = [call EXCEPT ![c] =
               [r EXCEPT !.pc = "done", !.outcome = "returned",
                         !.html = NoDocument, !.clearsAtEnd = nClear,
                         !.markup = componentHTML,
                         !.value =
                            CASE r.op = "loadComponent" -> componentHTML
                              [] r.op = "injectComponent" -> "true"
                              [] r.op = "placeholder" -> ""]]
  /\ innerHTML' = [innerHTML EXCEPT ![c] =
                    IF r.op = "loadComponent" THEN content
                    ELSE processComponentTemplate(componentHTML, r.data)]

\* loadComponent threw error (components.js:63-66) at the caller r
Failed(c, r, content, error) ==
  /\ call' = [call EXCEPT ![c] =
               CASE r.op = "loadComponent" ->
                      [r EXCEPT !.pc = "done", !.outcome = "threw",
                                !.clearsAtEnd = nClear, !.error = error]
                 [] r.op = "injectComponent" ->
                      [r EXCEPT !.pc = "done", !.outcome = "returned",
                                !.clearsAtEnd = nClear,
                                !.value = "false", !.error = error]
                 [] r.op = "placeholder" ->
                      [r EXCEPT !.pc = "done", !.outcome = "returned",
                                !.clearsAtEnd = nClear, !.error = error]]
  /\ innerHTML' = [innerHTML EXCEPT ![c] =
                    CASE r.op = "loadComponent" -> content
                      [] r.op = "injectComponent" ->
                           injectComponentCatch(content, r.name)
                      [] r.op = "placeholder" ->
                           placeholderCatch(content, r.name)]

\* the memo is not consulted: every call goes to the network
CallStartNoMemo(c, op, componentName, data) ==
  /\ nCalls < MaxCalls
  /\ FreeCalls # {}
  /\ c = Min(FreeCalls)
  /\ op = "loadComponent" => data = NoData
  /\ op = "injectComponent" => data.valid
  /\ nCalls' = nCalls + 1
  /\ call' = [call EXCEPT ![c] =
               [IdleCall EXCEPT !.op = op, !.name = componentName,
                                !.data = data, !.pc = "fetch1",
                                !.doneBefore =
                                   { d \in Calls \ {c} :
                                       call[d].pc = "done" },
                                !.clearsAtStart = nClear,
                                !.requested =
                                   << TemplateUrl(componentName) >>]]
  /\ innerHTML' = [innerHTML EXCEPT ![c] = InitialContent]
  /\ UNCHANGED << workerVars, componentCache, nClear >>

\* A call starts.  With the name in the memo loadComponent returns the
\* memoized markup at once; otherwise it requests the template file.
CallStart(c, op, componentName, data) ==
  /\ nCalls < MaxCalls
  /\ FreeCalls # {}
  /\ c = Min(FreeCalls)
  /\ op = "loadComponent" => data = NoData
  /\ op = "injectComponent" => data.valid
  /\ nCalls' = nCalls + 1
  /\ LET r == [IdleCall EXCEPT !.op = op, !.name = componentName,
                               !.data = data,
                               !.doneBefore =
                                  { d \in Calls \ {c} :
                                      call[d].pc = "done" },
                               !.clearsAtStart = nClear]
     IN  IF componentName \in DOMAIN componentCache
         THEN Loaded(c, r, InitialContent, componentCache[componentName])
         ELSE /\ call' = [call EXCEPT ![c] =
                           [r EXCEPT !.pc = "fetch1",
                                     !.requested =
                                        << TemplateUrl(componentName) >>]]
              /\ innerHTML' = [innerHTML EXCEPT ![c] = InitialContent]
  /\ UNCHANGED << workerVars, componentCache, nClear >>

\* the first fetch resolves with an ok response
FirstFetchOk(c, doc) ==
  /\ call[c].pc = "fetch1"
  /\ call' = [call EXCEPT ![c] =
               [@ EXCEPT !.pc = "text", !.first = "ok", !.html = doc]]
  /\ UNCHANGED << workerVars, componentCache, innerHTML, nCalls, nClear >>

\* the first fetch resolves with a response that is not ok: the component
\* file is requested
FirstFetchNotOk(c) ==
  /\ call[c].pc = "fetch1"
  /\ call' = [call EXCEPT ![c] =
               [@ EXCEPT !.pc = "fetch2", !.first = "notok",
                         !.requested =
                            Append(@, ComponentUrl(call[c].name))]]
  /\ UNCHANGED << workerVars, componentCache, innerHTML, nCalls, nClear >>

\* the first fetch rejects and the second request is made all the same
FirstFetchRejectFallback(c) ==
  /\ call[c].pc = "fetch1"
  /\ call' = [call EXCEPT ![c] =
               [@ EXCEPT !.pc = "fetch2", !.first = "rejected",
                         !.requested =
                            Append(@, ComponentUrl(call[c].name))]]
  /\ UNCHANGED << workerVars, componentCache, innerHTML, nCalls, nClear >>

\* the first fetch rejects: the await throws into the catch block
FirstFetchReject(c) ==
  /\ call[c].pc = "fetch1"
  /\ Failed(c, [call[c] EXCEPT !.first = "rejected"], innerHTML[c],
            FetchTypeError)
  /\ UNCHANGED << workerVars, componentCache, nCalls, nClear >>

\* the second fetch resolves with an ok response
SecondFetchOk(c, doc) ==
  /\ call[c].pc = "fetch2"
  /\ call' = [call EXCEPT ![c] =
               [@ EXCEPT !.pc = "text", !.second = "ok", !.html = doc]]
  /\ UNCHANGED << workerVars, componentCache, innerHTML, nCalls, nClear >>

\* the failed load leaving an empty entry in the memo
SecondFetchNotOkMemoizes(c, status) ==
  /\ call[c].pc = "fetch2"
  /\ Failed(c, [call[c] EXCEPT !.second = "notok"], innerHTML[c],
            HttpError(status))
  /\ componentCache' = MapSet(componentCache, call[c].name, "")
  /\ UNCHANGED << workerVars, nCalls, nClear >>

\* the second fetch resolves with a response that is not ok: throw new Error
SecondFetchNotOk(c, status) ==
  /\ call[c].pc = "fetch2"
  /\ Failed(c, [call[c] EXCEPT !.second = "notok"], innerHTML[c],
            HttpError(status))
  /\ UNCHANGED << workerVars, componentCache, nCalls, nClear >>

\* the second fetch rejects
SecondFetchReject(c) ==
  /\ call[c].pc = "fetch2"
  /\ Failed(c, [call[c] EXCEPT !.second = "rejected"], innerHTML[c],
            FetchTypeError)
  /\ UNCHANGED << workerVars, componentCache, nCalls, nClear >>

\* await response.text() resolves: extract, memoize, return
TextResolve(c) ==
  /\ call[c].pc = "text"
  /\ LET componentHTML ==
           extractComponentContent(call[c].html, call[c].name)
     IN  /\ componentCache' =
              MapSet(componentCache, call[c].name, componentHTML)
         /\ Loaded(c, call[c], innerHTML[c], componentHTML)
  /\ UNCHANGED << workerVars, nCalls, nClear >>

\* components.js:384-387
clearCache ==
  /\ nClear < MaxClear
  /\ nClear' = nClear + 1
  /\ componentCache' = EmptyMap
  /\ UNCHANGED << workerVars, call, innerHTML, nCalls >>

LoaderNext ==
  \/ \E c \in Calls, op \in Operations, componentName \in ComponentNames,
        data \in DataSets : CallStart(c, op, componentName, data)
  \/ \E c \in Calls, doc \in Documents : FirstFetchOk(c, doc)
  \/ \E c \in Calls : FirstFetchNotOk(c)
  \/ \E c \in Calls : FirstFetchReject(c)
  \/ \E c \in Calls, doc \in Documents : SecondFetchOk(c, doc)
  \/ \E c \in Calls, status \in NotOkStatuses : SecondFetchNotOk(c, status)
  \/ \E c \in Calls : SecondFetchReject(c)
  \/ \E c \in Calls : TextResolve(c)
  \/ clearCache

\* the page with its loader, the worker left as it starts
LoaderStart ==
  /\ Init
  /\ ~oldControls
  /\ cacheOrder = << >>

LoaderSpec == LoaderStart /\ [][LoaderNext]_vars

(***************************************************************************)
(* Vocabulary of the properties                                            *)
(***************************************************************************)
CacheFirst == { "Static", "Image", "Data" }

\* the store holds an entry for the key in some existing bucket
Stored(key) == \E n \in Range(cacheOrder) : key \in DOMAIN store[n]

\* install stored the whole manifest
InstallSucceeded == precache # EmptyBucket

\* the handler in slot i asked the network and the fetch was rejected
FetchFailed(i) == req[i].fetches = 1 /\ req[i].net.kind = "pending"

\* the positions, in creation order, of the buckets that hold the key
Holders(key) ==
  { k \in DOMAIN cacheOrder : key \in DOMAIN store[cacheOrder[k]] }

\* the entry of the oldest bucket that holds the key
FirstEntry(key) == store[cacheOrder[Min(Holders(key))]][key]

\* the load of call c is over and loadComponent threw
LoadFailed(c) == call[c].pc = "done" /\ call[c].error # ""

\* the load of call c is over and loadComponent returned markup
LoadSucceeded(c) == call[c].pc = "done" /\ call[c].error = ""

\* c and d are two loadComponent calls for one name, d made after c had
\* returned its markup from the network, with no clearCache and no other
\* call for that name in between
InSequence(c, d) ==
  /\ c # d
  /\ call[c].op = "loadComponent"
  /\ call[d].op = "loadComponent"
  /\ call[c].name = call[d].name
  /\ call[d].pc = "done"
  /\ c \in call[d].doneBefore
  /\ call[c].outcome = "returned"
  /\ call[c].requested # << >>
  /\ call[c].clearsAtEnd = call[d].clearsAtStart
  /\ \A e \in Calls \ {c, d} :
        call[e].pc = "idle" \/ call[e].name # call[c].name

RECURSIVE substituteFrom(_, _, _)
\* every {{ key }} of s from position i on, for a key of pairs, replaced by
\* that key's value as it is; everything else as it is
substituteFrom(s, i, pairs) ==
  IF i > Len(s) THEN ""
  ELSE LET hits == { k \in DOMAIN pairs :
                       matchLength(s, i, pairs[k][1]) > 0 }
       IN  IF hits # {}
           THEN pairs[Min(hits)][2]
                  \o substituteFrom(s, i + matchLength(s, i,
                                                       pairs[Min(hits)][1]),
                                    pairs)
           ELSE SubSeq(s, i, i) \o substituteFrom(s, i + 1, pairs)

\* the classification the ordered suffix rule gives
SuffixStrategy(url) ==
  IF \E i \in DOMAIN staticExtensions : endsWith(url, staticExtensions[i])
  THEN "Static"
  ELSE IF \E i \in DOMAIN imageExtensions : endsWith(url, imageExtensions[i])
  THEN "Image"
  ELSE IF endsWith(url, dataExtension) THEN "Data"
  ELSE "Dynamic"

(***************************************************************************)
(* C1: a cache-first handler (Static, Image, Data) that finds an entry for *)
(* the request's key in the cache store when it looks returns that stored  *)
(* entry and asks the network nothing for that request.                    *)
(***************************************************************************)
C1_CacheHitNoNetwork ==
  [][\A i \in Slots :
       ( /\ req[i].pc = "match"
         /\ req[i].strategy \in CacheFirst
         /\ Stored(req[i].url)
         /\ req'[i] # req[i] )
       => ( /\ req'[i].pc = "done"
            /\ req'[i].fetches = 0
            /\ \E n \in Range(cacheOrder) :
                  /\ req[i].url \in DOMAIN store[n]
                  /\ req'[i].result = store[n][req[i].url] )]_vars

C1_Witness ==
  \E i \in Slots :
     /\ req[i].pc = "done"
     /\ req[i].strategy \in CacheFirst
     /\ req[i].fetches = 0
     /\ req[i].result.kind = "response"
     /\ req[i].result.url = req[i].url

(***************************************************************************)
(* C2 as stated: when the write of a Dynamic handler whose fetch returned  *)
(* a success response completes, the dynamic bucket holds, under the       *)
(* request's key, the response the handler returned.                       *)
(***************************************************************************)
C2_WriteThroughAlways ==
  [][\A i \in Slots :
       ( /\ req[i].pc = "put"
         /\ req'[i].pc = "done"
         /\ req[i].strategy = "Dynamic" )
       => ( /\ DYNAMIC_CACHE \in Range(cacheOrder')
            /\ req[i].url \in DOMAIN store'[DYNAMIC_CACHE]
            /\ store'[DYNAMIC_CACHE][req[i].url] = req[i].result )]_vars

(***************************************************************************)
(* C2 amended: a Dynamic handler whose fetch returned a success response   *)
(* returns that response and writes it under the request's key; when the   *)
(* write completes the dynamic bucket holds it, unless the bucket was      *)
(* deleted after the handler opened it.                                    *)
(***************************************************************************)
C2_WriteThrough ==
  [][\A i \in Slots :
       /\ ( /\ req[i].pc = "fetch"
            /\ req[i].strategy = "Dynamic"
            /\ req'[i].net.kind = "response"
            /\ ok(req'[i].net) )
          => req'[i].pc = "open"
       /\ ( /\ req[i].pc = "put"
            /\ req'[i].pc = "done"
            /\ req[i].strategy = "Dynamic"
            /\ req[i].handle = "live" )
          => ( /\ req[i].result = req[i].net
               /\ ok(req[i].result)
               /\ DYNAMIC_CACHE \in Range(cacheOrder')
               /\ req[i].url \in DOMAIN store'[DYNAMIC_CACHE]
               /\ store'[DYNAMIC_CACHE][req[i].url] = req[i].result )]_vars

C2_Witness ==
  \E i \in Slots :
     /\ req[i].pc = "done"
     /\ req[i].strategy = "Dynamic"
     /\ ok(req[i].net)
     /\ req[i].result = req[i].net
     /\ req[i].handle = "live"
     /\ req[i].url \in DOMAIN store[DYNAMIC_CACHE]
     /\ store[DYNAMIC_CACHE][req[i].url] = req[i].result

(***************************************************************************)
(* C3: the strategy the fetch listener selects for a GET request is the    *)
(* one the ordered suffix rule gives for its URL (so a URL ending in .json *)
(* is handled by the data-file strategy).                                  *)
(***************************************************************************)
C3_SuffixClassification ==
  \A i \in Slots :
     req[i].pc # "idle" => req[i].strategy = SuffixStrategy(req[i].url)

(***************************************************************************)
(* C4: after a successful install, an Image request that misses the cache  *)
(* and whose fetch fails is answered with the placeholder image, with a    *)
(* success status.                                                         *)
(***************************************************************************)
C4_ImagePlaceholder ==
  \A i \in Slots :
     ( /\ InstallSucceeded
       /\ req[i].pc = "done"
       /\ req[i].strategy = "Image"
       /\ FetchFailed(i) )
     => ( /\ ok(req[i].result)
          /\ req[i].result.url = PLACEHOLDER_URL )

(***************************************************************************)
(* C5: a request for a URL ending in .json that misses the cache and whose *)
(* fetch fails is answered with the JSON error payload, content type       *)
(* application/json; no error reaches the page.                            *)
(***************************************************************************)
C5_DataOfflineJson ==
  \A i \in Slots :
     ( /\ req[i].pc = "done"
       /\ endsWith(req[i].url, dataExtension)
       /\ FetchFailed(i) )
     => ( /\ req[i].result.kind = "response"
          /\ req[i].result.body = OFFLINE_JSON
          /\ req[i].result.ctype = "application/json" )

(***************************************************************************)
(* C6: after a successful install, a Static request for an HTML resource   *)
(* that misses the cache and whose fetch fails is answered with the        *)
(* offline page /offline.html.                                             *)
(***************************************************************************)
C6_OfflinePage ==
  \A i \in Slots :
     ( /\ InstallSucceeded
       /\ req[i].pc = "done"
       /\ req[i].strategy = "Static"
       /\ endsWith(req[i].url, ".html")
       /\ FetchFailed(i) )
     => ( /\ req[i].result.kind = "response"
          /\ req[i].result.url = OFFLINE_URL )

(***************************************************************************)
(* C7: when activation has completed its deletions, it has called delete   *)
(* for exactly the names of its snapshot that are not current-version      *)
(* names: none of those buckets exists any more, and every current-version *)
(* bucket of the snapshot that no DELETE_CACHE named is still there.       *)
(***************************************************************************)
C7_ActivateDeletesExactlyStale ==
  /\ activateDeleted \subseteq activateKeys \ CurrentCaches
  /\ ( phase = "activate_delete" /\ activatePending = {} )
     => ( /\ activateDeleted = activateKeys \ CurrentCaches
          /\ Range(cacheOrder) \cap (activateKeys \ CurrentCaches) = {}
          /\ (activateKeys \cap CurrentCaches) \ deleteSeen
                \subseteq Range(cacheOrder) )

C7_Witness ==
  /\ phase = "activate_delete"
  /\ activatePending = {}
  /\ activateKeys = { STATIC_CACHE, DYNAMIC_CACHE } \cup StaleCaches
  /\ activateDeleted = StaleCaches
  /\ Range(cacheOrder) = { STATIC_CACHE, DYNAMIC_CACHE }

(***************************************************************************)
(* C8: if install could not fetch the manifest, the worker never reaches   *)
(* the activating or active state.                                         *)
(***************************************************************************)
C8_FailedInstallNeverActivates ==
  "Failed to cache static files" \in errorLog
     => phase \notin {"activate_keys", "activate_delete", "activated"}

(***************************************************************************)
(* C9 as stated: in every reachable state a bucket exists for each of the  *)
(* three partition kinds, and after activation no bucket with another name *)
(* exists.                                                                 *)
(***************************************************************************)
C9_OneBucketPerKindAlways ==
  /\ \A n \in CurrentCaches :
        Cardinality({ i \in DOMAIN cacheOrder : cacheOrder[i] = n }) = 1
  /\ phase = "activated" => Range(cacheOrder) \subseteq CurrentCaches

(***************************************************************************)
(* C9 amended: in every reachable state at most one bucket exists for each *)
(* partition kind (a kind's bucket is missing until it is first opened and *)
(* after a DELETE_CACHE naming it), a bucket that does not exist holds no  *)
(* entry, and after activation no bucket whose name differs from the three *)
(* current-version names exists.                                           *)
(***************************************************************************)
C9_AtMostOneBucketPerKind ==
  /\ \A n \in CacheNames :
        Cardinality({ i \in DOMAIN cacheOrder : cacheOrder[i] = n }) <= 1
  /\ \A n \in CacheNames :
        n \notin Range(cacheOrder) => store[n] = EmptyBucket
  /\ phase = "activated" => Range(cacheOrder) \subseteq CurrentCaches

C9_Witness ==
  /\ phase = "activated"
  /\ Range(cacheOrder) = { STATIC_CACHE, IMAGE_CACHE }
  /\ DYNAMIC_CACHE \in deleteSeen

(***************************************************************************)
(* C10: after a successful install and with no DELETE_CACHE received, a    *)
(* GET request for a manifest URL that gets nothing from the network       *)
(* (not asked, or the fetch failed) is answered with the response install  *)
(* stored for it; only the network-first URL '/' asks the network at all.  *)
(***************************************************************************)
C10_ManifestServedOffline ==
  \A i \in Slots :
     ( /\ InstallSucceeded
       /\ deleteSeen = {}
       /\ req[i].pc = "done"
       /\ req[i].url \in Manifest )
     => ( /\ req[i].strategy \in CacheFirst => req[i].fetches = 0
          /\ req[i].net.kind = "pending"
                => ( /\ req[i].result = precache[req[i].url]
                     /\ ok(req[i].result) ) )

C10_Witness ==
  \E i \in Slots :
     /\ InstallSucceeded
     /\ deleteSeen = {}
     /\ req[i].pc = "done"
     /\ req[i].url = "/"
     /\ FetchFailed(i)
     /\ req[i].result = precache["/"]
     /\ "/" \in DOMAIN store[DYNAMIC_CACHE]
     /\ store[DYNAMIC_CACHE]["/"] # precache["/"]

(***************************************************************************)
(* C11: a fetch event whose method is not GET is not answered (no handler  *)
(* is started for it: only GET requests ever occupy a handler), and the    *)
(* step that receives it leaves the cache store (bucket list and every     *)
(* bucket's contents) and every running handler as they were.              *)
(***************************************************************************)
C11_NonGetBypassed ==
  [][ /\ \A i \in Slots : req'[i].pc # "idle" => req'[i].method = "GET"
      /\ nFetch' # nFetch
            => \/ /\ bypassed' = bypassed + 1
                  /\ req' = req
                  /\ store' = store
                  /\ cacheOrder' = cacheOrder
               \/ /\ bypassed' = bypassed
                  /\ \E i \in Slots : /\ req'[i] # req[i]
                                       /\ req'[i].method = "GET"
                                       /\ req'[i].fetches = 0 ]_vars

C11_Witness ==
  /\ bypassed = 1
  /\ nFetch = 2
  /\ store[STATIC_CACHE] # EmptyBucket
  /\ \E i \in Slots : req[i].pc = "done" /\ req[i].method = "GET"

(***************************************************************************)
(* C16: a DELETE_CACHE message naming bucket N removes bucket N from the   *)
(* store, whatever N is, leaves every other bucket, its place in the       *)
(* creation order and its entries unchanged, and sends nothing to any      *)
(* client.                                                                 *)
(***************************************************************************)
C16_DeleteExactlyNamed ==
  [][ deleteSeen' # deleteSeen
        => \E N \in CacheNames :
              /\ deleteSeen' = deleteSeen \cup {N}
              /\ N \notin Range(cacheOrder')
              /\ store'[N] = EmptyBucket
              /\ cacheOrder' = SelectSeq(cacheOrder, LAMBDA n : n # N)
              /\ \A n \in CacheNames \ {N} : store'[n] = store[n]
              /\ outbox' = outbox ]_vars

C16_Witness ==
  /\ deleteSeen = { DYNAMIC_CACHE }
  /\ msg.pc = "done"
  /\ msg.fetched = "all"
  /\ DYNAMIC_CACHE \notin Range(cacheOrder)
  /\ InstallSucceeded
  /\ store[STATIC_CACHE] = precache
  /\ outbox = {}

(***************************************************************************)
(* C17 as stated: when the addAll of a CACHE_URLS message completes, every *)
(* listed URL is in the dynamic bucket if all were fetched, nothing was    *)
(* stored if one was not, and no other bucket was written.                 *)
(***************************************************************************)
C17_AllOrNothingAlways ==
  [][ (msg.pc = "addAll" /\ msg'.pc = "done")
        => /\ \A n \in CacheNames \ {DYNAMIC_CACHE} : store'[n] = store[n]
           /\ msg'.fetched = "failed" => store' = store
           /\ msg'.fetched = "all"
                 => \A u \in msg.urls :
                       /\ u \in DOMAIN store'[DYNAMIC_CACHE]
                       /\ ok(store'[DYNAMIC_CACHE][u]) ]_vars

(***************************************************************************)
(* C17: when the addAll of a CACHE_URLS message completes, no bucket other *)
(* than the dynamic bucket was written, nothing was stored if one URL was  *)
(* unfetchable, and, unless the dynamic bucket was deleted after the       *)
(* handler opened it, every listed URL is in the dynamic bucket if all     *)
(* were fetched; the entries of the dynamic bucket for other keys stay.    *)
(***************************************************************************)
C17_AllOrNothing ==
  [][ (msg.pc = "addAll" /\ msg'.pc = "done")
        => /\ \A n \in CacheNames \ {DYNAMIC_CACHE} : store'[n] = store[n]
           /\ msg'.fetched = "failed" => store' = store
           /\ (msg'.fetched = "all" /\ msg.handle = "live")
                 => \A u \in msg.urls :
                       /\ u \in DOMAIN store'[DYNAMIC_CACHE]
                       /\ ok(store'[DYNAMIC_CACHE][u])
           /\ \A u \in DOMAIN store[DYNAMIC_CACHE] \ msg.urls :
                 /\ u \in DOMAIN store'[DYNAMIC_CACHE]
                 /\ store'[DYNAMIC_CACHE][u] = store[DYNAMIC_CACHE][u] ]_vars

C17_Witness ==
  /\ msg.pc = "done"
  /\ msg.fetched = "all"
  /\ msg.handle = "live"
  /\ msg.urls = {"/", "/assets/images/anime/poster.png"}
  /\ msg.urls \subseteq DOMAIN store[DYNAMIC_CACHE]
  /\ store[IMAGE_CACHE] = EmptyBucket

(***************************************************************************)
(* C19 as stated: a Dynamic request whose fetch failed is answered with    *)
(* the dynamic bucket's entry for its key if there is one, and with the    *)
(* network error otherwise, whatever the other buckets hold.               *)
(***************************************************************************)
C19_FallbackDynamicBucketOnly ==
  [][ \A i \in Slots :
        ( /\ req[i].pc = "fallback"
          /\ req[i].strategy = "Dynamic"
          /\ req'[i].pc = "done" )
        => IF req[i].url \in DOMAIN store[DYNAMIC_CACHE]
           THEN req'[i].result = store[DYNAMIC_CACHE][req[i].url]
           ELSE req'[i].result = NetworkError ]_vars

(***************************************************************************)
(* C19: a Dynamic request whose fetch failed is answered with the entry    *)
(* for its key of the oldest bucket of the whole store that holds one      *)
(* (static, image or dynamic), and with the network error if no bucket     *)
(* holds one.                                                              *)
(***************************************************************************)
C19_FallbackAnyBucket ==
  [][ \A i \in Slots :
        ( /\ req[i].pc = "fallback"
          /\ req[i].strategy = "Dynamic"
          /\ req'[i].pc = "done" )
        => IF Stored(req[i].url)
           THEN req'[i].result = FirstEntry(req[i].url)
           ELSE req'[i].result = NetworkError ]_vars

C19_Witness ==
  \E i \in Slots :
     /\ req[i].pc = "done"
     /\ req[i].strategy = "Dynamic"
     /\ FetchFailed(i)
     /\ req[i].url \notin DOMAIN store[DYNAMIC_CACHE]
     /\ req[i].url \in DOMAIN store[STATIC_CACHE]
     /\ req[i].result = store[STATIC_CACHE][req[i].url]

(***************************************************************************)
(* C20 as stated: a cache-first handler takes the request as a cache hit   *)
(* exactly when the bucket of the request's own classification holds its   *)
(* key.                                                                    *)
(***************************************************************************)
C20_HitInOwnBucketOnly ==
  [][ \A i \in Slots :
        (req[i].pc = "match" /\ req'[i].pc # "match")
        => ( req'[i].pc = "done"
               <=> req[i].url \in DOMAIN store[BucketOf(req[i].strategy)] )
    ]_vars

(***************************************************************************)
(* C20: a cache-first handler takes the request as a cache hit exactly     *)
(* when some bucket of the store, of whatever classification, holds its    *)
(* key, and then answers with the entry of the oldest such bucket.         *)
(***************************************************************************)
C20_HitInAnyBucket ==
  [][ \A i \in Slots :
        (req[i].pc = "match" /\ req'[i].pc # "match")
        => /\ req'[i].pc = "done" <=> Stored(req[i].url)
           /\ req'[i].pc = "done"
                 => req'[i].result = FirstEntry(req[i].url) ]_vars

C20_Witness ==
  \E i \in Slots :
     /\ req[i].pc = "done"
     /\ req[i].strategy = "Image"
     /\ req[i].fetches = 0
     /\ req[i].url \notin DOMAIN store[IMAGE_CACHE]
     /\ req[i].url \in DOMAIN store[DYNAMIC_CACHE]
     /\ req[i].result = store[DYNAMIC_CACHE][req[i].url]

(***************************************************************************)
(* C18: whenever the new worker is installed while an earlier version      *)
(* still controls the page, UPDATE_AVAILABLE is eventually sent to the     *)
(* clients; and whenever the worker has taken control (clients.claim),     *)
(* RELOAD_PAGE is eventually sent to the clients.                          *)
(***************************************************************************)
C18_ClientsNotified ==
  /\ (phase = "installed" /\ oldControls) ~> ("UPDATE_AVAILABLE" \in outbox)
  /\ (phase = "activated") ~> ("RELOAD_PAGE" \in outbox)

(***************************************************************************)
(* C12 as stated: of two loadComponent calls for one name made in          *)
(* sequence, the first returning markup it fetched, the second returns the *)
(* same markup and requests nothing, and the two calls together made       *)
(* exactly one request.                                                    *)
(***************************************************************************)
C12_OneFetchForTwoCalls ==
  \A c \in Calls, d \in Calls :
     InSequence(c, d)
     => /\ call[d].outcome = "returned"
        /\ call[d].value = call[c].value
        /\ call[d].requested = << >>
        /\ Len(call[c].requested) + Len(call[d].requested) = 1

(***************************************************************************)
(* C12: of two loadComponent calls for one name made in sequence, the      *)
(* first returning markup it fetched, the second returns the same markup   *)
(* and requests nothing (it is served from the memo); the requests made    *)
(* for the two calls are those of the first: one if the template file was  *)
(* served, two if the first call fell back to the component file.          *)
(***************************************************************************)
C12_SecondCallFromMemo ==
  \A c \in Calls, d \in Calls :
     InSequence(c, d)
     => /\ call[d].outcome = "returned"
        /\ call[d].value = call[c].value
        /\ call[d].requested = << >>
        /\ Len(call[c].requested) =
              IF call[c].first = "ok" THEN 1 ELSE 2

C12_Witness ==
  \E c \in Calls, d \in Calls :
     /\ InSequence(c, d)
     /\ Len(call[c].requested) = 2
     /\ call[d].requested = << >>
     /\ call[d].value = call[c].value
     /\ call[d].value # ""

(***************************************************************************)
(* C13 as stated: a call that misses the memo requests the template file   *)
(* first; it has requested the component file exactly if the first request *)
(* failed (a response that is not ok, or a rejection); if both requests    *)
(* failed loadComponent throws an error carrying the status or the error,  *)
(* and if one succeeded loadComponent returns.                             *)
(***************************************************************************)
C13_FallbackIffFirstFailed ==
  \A c \in Calls :
     (call[c].pc = "done" /\ call[c].requested # << >>)
     => /\ call[c].requested[1] = TemplateUrl(call[c].name)
        /\ Len(call[c].requested) = 2
              <=> call[c].first \in { "notok", "rejected" }
        /\ Len(call[c].requested) = 2
              => call[c].requested[2] = ComponentUrl(call[c].name)
        /\ (call[c].first = "ok" \/ call[c].second = "ok")
              => LoadSucceeded(c)
        /\ ( /\ call[c].first \in { "notok", "rejected" }
             /\ call[c].second \in { "notok", "rejected" } )
              => /\ LoadFailed(c)
                 /\ call[c].error \in
                       { HttpError(st) : st \in NotOkStatuses }
                         \cup { FetchTypeError }

(***************************************************************************)
(* C13: a call that misses the memo requests the template file first; it   *)
(* requests the component file exactly if the first request returned a     *)
(* response that is not ok; it fails, with an error carrying the second    *)
(* response's status or the rejection's error, exactly if the first        *)
(* request was rejected (no second request is made then) or the second     *)
(* request returned a response that is not ok or was rejected; otherwise   *)
(* one of the two requests succeeded and the call succeeds.                *)
(***************************************************************************)
C13_FallbackIffFirstNotOk ==
  \A c \in Calls :
     (call[c].pc = "done" /\ call[c].requested # << >>)
     => /\ call[c].requested[1] = TemplateUrl(call[c].name)
        /\ Len(call[c].requested) \in { 1, 2 }
        /\ Len(call[c].requested) = 2 <=> call[c].first = "notok"
        /\ Len(call[c].requested) = 2
              => call[c].requested[2] = ComponentUrl(call[c].name)
        /\ (call[c].first = "ok" \/ call[c].second = "ok")
              <=> LoadSucceeded(c)
        /\ call[c].first = "rejected"
              => /\ LoadFailed(c)
                 /\ call[c].second = ""
                 /\ call[c].error = FetchTypeError
        /\ call[c].second = "notok"
              => /\ LoadFailed(c)
                 /\ call[c].error \in
                       { HttpError(st) : st \in NotOkStatuses }
        /\ call[c].second = "rejected"
              => /\ LoadFailed(c)
                 /\ call[c].error = FetchTypeError
        /\ call[c].op = "loadComponent"
              => (LoadFailed(c) <=> call[c].outcome = "threw")

C13_Witness ==
  \E c \in Calls :
     /\ call[c].pc = "done"
     /\ call[c].op = "loadComponent"
     /\ call[c].first = "rejected"
     /\ call[c].requested = << TemplateUrl(call[c].name) >>
     /\ call[c].outcome = "threw"
     /\ call[c].error = FetchTypeError

C15_TemplateSubstitution ==
  /\ processComponentTemplate("<p>{{name}}</p>",
                              DataObject(<< << "name", "Naruto" >> >>))
        = "<p>Naruto</p>"
  /\ processComponentTemplate("<p>{{name}}</p>", DataObject(<< >>))
        = "<p>{{name}}</p>"
  /\ \A c \in Calls :
        ( /\ LoadSucceeded(c)
          /\ call[c].op \in { "injectComponent", "placeholder" }
          /\ call[c].data.given
          /\ call[c].data.valid )
        => innerHTML[c] = substituteFrom(call[c].markup, 1,
                                         call[c].data.pairs)

(***************************************************************************)
(* C21 as stated: a cache-first handler whose fetch returned a response    *)
(* with a non-success status has not answered with that response (it has   *)
(* answered with its fallback).                                            *)
(***************************************************************************)
C21_NonSuccessRecovered ==
  \A i \in Slots :
     ( /\ req[i].pc = "done"
       /\ req[i].strategy \in CacheFirst
       /\ req[i].net.kind = "response"
       /\ ~ok(req[i].net) )
     => req[i].result # req[i].net

(***************************************************************************)
(* C21: a cache-first handler whose fetch returns a response with a        *)
(* non-success status returns that response to the page as it is, at once: *)
(* no fallback is looked up and nothing is stored.  The fallbacks are for  *)
(* a fetch that throws.                                                    *)
(***************************************************************************)
C21_NonSuccessReturned ==
  [][ \A i \in Slots :
        ( /\ req[i].pc = "fetch"
          /\ req[i].strategy \in CacheFirst
          /\ req'[i].net.kind = "response"
          /\ ~ok(req'[i].net) )
        => /\ req'[i].pc = "done"
           /\ req'[i].result = req'[i].net
           /\ store' = store
           /\ cacheOrder' = cacheOrder ]_vars

C21_Witness ==
  \E i \in Slots :
     /\ req[i].pc = "done"
     /\ req[i].strategy = "Static"
     /\ req[i].fetches = 1
     /\ req[i].net.status = 404
     /\ req[i].result = req[i].net
     /\ ~Stored(req[i].url)

(***************************************************************************)
(* C22 as stated: when a handler has returned a successful network         *)
(* response, the bucket of its classification holds that response under    *)
(* the request's key.                                                      *)
(***************************************************************************)
C22_StoredBeforeReturn ==
  \A i \in Slots :
     req[i].pc = "put"
     => /\ req[i].url \in DOMAIN store[BucketOf(req[i].strategy)]
        /\ store[BucketOf(req[i].strategy)][req[i].url] = req[i].result

(***************************************************************************)
(* C22: a handler whose fetch succeeded opens its bucket, starts the write *)
(* of the copy and returns the network response without waiting for the    *)
(* write: the step that returns leaves every bucket's entries as they      *)
(* were, and the bucket holds the entry when the write completes later,    *)
(* unless the bucket was deleted after the handler opened it.              *)
(***************************************************************************)
C22_ReturnBeforeStored ==
  [][ \A i \in Slots :
        /\ (req[i].pc = "open" /\ req'[i].pc # "open")
              => /\ req'[i].pc = "put"
                 /\ req'[i].result = req[i].net
                 /\ ok(req[i].net)
                 /\ store' = store
                 /\ BucketOf(req[i].strategy) \in Range(cacheOrder')
        /\ (req[i].pc = "put" /\ req'[i].pc = "done"
               /\ req[i].handle = "live")
              => /\ req'[i].result = req[i].result
                 /\ req[i].url \in
                       DOMAIN store'[BucketOf(req[i].strategy)]
                 /\ store'[BucketOf(req[i].strategy)][req[i].url]
                       = req[i].result ]_vars

C22_Witness ==
  \E i \in Slots :
     /\ req[i].pc = "put"
     /\ req[i].result = req[i].net
     /\ ok(req[i].result)
     /\ ~Stored(req[i].url)

(***************************************************************************)
(* C23: of the requests that missed the cache and whose fetch failed, one  *)
(* for a static file that is not an HTML resource is answered with the     *)
(* network error, and one for an image or for a data file (.json) is not:  *)
(* its handler does not re-throw.                                          *)
(***************************************************************************)
C23_OnlyStaticNonHtmlRethrows ==
  \A i \in Slots :
     (req[i].pc = "done" /\ FetchFailed(i))
     => /\ ( /\ SuffixStrategy(req[i].url) = "Static"
             /\ ~endsWith(req[i].url, ".html") )
              => req[i].result = NetworkError
        /\ SuffixStrategy(req[i].url) \in { "Image", "Data" }
              => req[i].result # NetworkError

(***************************************************************************)
(* C24: no promise a lifecycle hook hands to event.waitUntil is rejected:  *)
(* the hook has caught (and logged) every failure of its asynchronous      *)
(* work.                                                                   *)
(***************************************************************************)
C24_HooksCatchAndLog ==
  /\ installResult # "rejected"
  /\ msg.waitUntil # "rejected"
  /\ msg.fetched = "failed" => errorLog # {}

(***************************************************************************)
(* C25: install signals skipWaiting only when every manifest URL has been  *)
(* stored, activate claims the clients only when every deletion of a stale *)
(* bucket has completed, and install signals its completion to the runtime *)
(* only when the manifest has been stored and skipWaiting signalled.       *)
(***************************************************************************)
C25_TakeoverAfterCacheWork ==
  [][ /\ (phase = "install_skip" /\ phase' # phase)
            => /\ Manifest \subseteq DOMAIN precache
               /\ installResult = "pending"
               /\ skipWaitingFlag'
      /\ (phase # "activated" /\ phase' = "activated")
            => /\ activatePending = {}
               /\ activateDeleted = activateKeys \ CurrentCaches
               /\ Range(cacheOrder) \cap (activateKeys \ CurrentCaches) = {}
      /\ (installResult = "pending" /\ installResult' = "fulfilled")
            => /\ Manifest \subseteq DOMAIN precache
               /\ skipWaitingFlag' ]_vars

\* the fetched text is a document, not a template file
IsFullDocument(html) ==
  /\ html # NoDocument
  /\ ~( /\ includes(html.raw, "<!--")
        /\ includes(html.raw, "Component Template -->") )

\* the sub-element the rule of the component's name selects ("" when the
\* document has none)
SpecificElement(html, componentName) ==
  CASE componentName \in { "header", "footer" } -> html.nav
    [] componentName \in { "anime-card", "genre-card" } -> html.card
    [] OTHER -> ""

(***************************************************************************)
(* C26: when loadComponent has fetched a full HTML document that lacks the *)
(* sub-element of the component's name, the markup it memoizes and returns *)
(* is the content of the document's body, for every component name, and is *)
(* not empty when the body is not.                                         *)
(***************************************************************************)
C26_BodyFallbackForEveryName ==
  [][ \A c \in Calls :
        ( /\ call[c].pc = "text" /\ call'[c].pc = "done"
          /\ IsFullDocument(call[c].html)
          /\ SpecificElement(call[c].html, call[c].name) = "" )
        => /\ call[c].name \in DOMAIN componentCache'
           /\ componentCache'[call[c].name] = call[c].html.body
           /\ call'[c].markup = call[c].html.body
           /\ call[c].html.body # ""
                 => componentCache'[call[c].name] # "" ]_vars

(***************************************************************************)
(* C27: under any interleaving of loadComponent calls, an entry of the     *)
(* memo is neither changed nor removed by a step that is not clearCache,   *)
(* and a call for a name that has an entry requests nothing from the       *)
(* network.                                                                *)
(***************************************************************************)
C27_MemoWrittenOnce ==
  [][ /\ \A n \in DOMAIN componentCache :
            nClear' = nClear
            => /\ n \in DOMAIN componentCache'
               /\ componentCache'[n] = componentCache[n]
      /\ \A c \in Calls :
            ( /\ nCalls' = nCalls + 1
              /\ call'[c] # call[c]
              /\ call'[c].name \in DOMAIN componentCache )
            => call'[c].requested = << >> ]_vars

(***************************************************************************)
(* C29: a loadComponent call that fails leaves the memo as it was, with no *)
(* entry created for its name; a call for a name that has no entry in the  *)
(* memo requests the template file from the network, so the call that      *)
(* follows a failed one for the same name (no other call for the name      *)
(* having been made) has gone to the network again.                        *)
(***************************************************************************)
C29_FailedLoadNotMemoized ==
  [][ /\ \A c \in Calls :
            ( /\ call[c].pc \in { "fetch1", "fetch2", "text" }
              /\ call'[c].pc = "done"
              /\ call'[c].error # "" )
            => componentCache' = componentCache
      /\ \A c \in Calls :
            ( /\ nCalls' = nCalls + 1
              /\ call'[c] # call[c]
              /\ call'[c].name \notin DOMAIN componentCache )
            => /\ call'[c].pc = "fetch1"
               /\ call'[c].requested = << TemplateUrl(call'[c].name) >>
      /\ \A c \in Calls, d \in Calls :
            ( /\ c # d
              /\ call'[c].pc = "done" /\ call'[c].error # ""
              /\ call'[d].pc = "done"
              /\ c \in call'[d].doneBefore
              /\ call'[d].name = call'[c].name
              /\ \A e \in Calls \ { c, d } :
                    call'[e].name # call'[c].name )
            => /\ call'[d].requested # << >>
               /\ call'[d].requested[1] = TemplateUrl(call'[d].name) ]_vars

C29_Witness ==
  \E c \in Calls, d \in Calls :
     /\ c # d
     /\ LoadFailed(c)
     /\ LoadSucceeded(d)
     /\ c \in call[d].doneBefore
     /\ call[d].name = call[c].name
     /\ call[d].requested # << >>
     /\ call[d].outcome = "returned"
     /\ call[d].name \in DOMAIN componentCache
     /\ componentCache[call[d].name] = call[d].markup
     /\ nClear = 0

(***************************************************************************)
(* C28 as stated: when the write of a handler completes while another      *)
(* handler for the same URL has already fetched and written its own        *)
(* response, the bucket holds one entry for the key, that of the write     *)
(* completing last, and each handler has returned its own response.        *)
(***************************************************************************)
C28_LastWriteWinsAlways ==
  [][ \A i \in Slots, j \in Slots :
        ( /\ i # j
          /\ req[i].pc = "put" /\ req'[i].pc = "done"
          /\ req[j].pc = "done"
          /\ req[j].url = req[i].url
          /\ req[j].fetches = 1 /\ ok(req[j].net)
          /\ req[i].url \in DOMAIN store[BucketOf(req[i].strategy)]
          /\ store[BucketOf(req[i].strategy)][req[i].url] = req[j].net )
        => /\ store'[BucketOf(req[i].strategy)][req[i].url] = req[i].net
           /\ req'[i].result = req[i].net
           /\ req'[j].result = req[j].net ]_vars

(***************************************************************************)
(* C28: when the write of a handler completes while another handler for    *)
(* the same URL has already fetched and written its own response, the      *)
(* bucket holds one entry for the key, that of the write completing last   *)
(* (unless the bucket was deleted after the later handler opened it: its   *)
(* write is lost then), the other entries of the bucket are as they were,  *)
(* and each handler has returned its own network response.                 *)
(***************************************************************************)
C28_LastWriteWins ==
  [][ \A i \in Slots, j \in Slots :
        ( /\ i # j
          /\ req[i].pc = "put" /\ req'[i].pc = "done"
          /\ req[j].pc = "done"
          /\ req[j].url = req[i].url
          /\ req[j].fetches = 1 /\ ok(req[j].net)
          /\ req[i].url \in DOMAIN store[BucketOf(req[i].strategy)]
          /\ store[BucketOf(req[i].strategy)][req[i].url] = req[j].net )
        => /\ req[i].handle = "live"
                 => store'[BucketOf(req[i].strategy)][req[i].url]
                      = req[i].net
           /\ req[i].handle # "live" => store' = store
           /\ DOMAIN store'[BucketOf(req[i].strategy)]
                 = DOMAIN store[BucketOf(req[i].strategy)]
           /\ \A u \in DOMAIN store[BucketOf(req[i].strategy)]
                       \ { req[i].url } :
                 store'[BucketOf(req[i].strategy)][u]
                   = store[BucketOf(req[i].strategy)][u]
           /\ req'[i].result = req[i].net
           /\ req'[j].result = req[j].net ]_vars

C28_Witness ==
  \E i \in Slots, j \in Slots :
     /\ i # j
     /\ req[i].pc = "done" /\ req[j].pc = "done"
     /\ req[i].url = req[j].url
     /\ req[i].strategy = "Static"
     /\ req[i].fetches = 1 /\ req[j].fetches = 1
     /\ ok(req[i].net) /\ ok(req[j].net)
     /\ req[i].net # req[j].net
     /\ req[i].handle = "live" /\ req[j].handle = "live"
     /\ req[i].result = req[i].net /\ req[j].result = req[j].net
     /\ req[i].url \in DOMAIN store[STATIC_CACHE]
     /\ store[STATIC_CACHE][req[i].url] = req[i].net

(***************************************************************************)
(* C30: every entry of every bucket is a response with a success status,   *)
(* and a handler whose fetch returned a response with a non-success status *)
(* has returned that response to the page.                                 *)
(***************************************************************************)
C30_OnlySuccessStored ==
  /\ \A n \in CacheNames : \A u \in DOMAIN store[n] :
        /\ store[n][u].kind = "response"
        /\ store[n][u].status \in 200..299
  /\ \A i \in Slots :
        ( /\ req[i].pc = "done"
          /\ req[i].net.kind = "response"
          /\ req[i].net.status \notin 200..299 )
        => req[i].result = req[i].net

C30_Witness ==
  \E i \in Slots, j \in Slots :
     /\ req[i].pc = "done"
     /\ req[i].net.status = 404
     /\ req[i].result = req[i].net
     /\ ~Stored(req[i].url)
     /\ req[j].pc = "done"
     /\ req[j].handle = "live"
     /\ req[j].net.status = 200
     /\ req[j].url \in DOMAIN store[BucketOf(req[j].strategy)]
     /\ store[BucketOf(req[j].strategy)][req[j].url] = req[j].net

=============================================================================
